---- MODULE Spec2Model ----
(***************************************************************************)
(* A model of the persistence layer of ponytracker (tracker/models.py):    *)
(* the Issue, Label, Milestone, Event, ReadState and Settings tables and   *)
(* the model methods that read and write them.  Every table is a set of    *)
(* rows; a row is a record whose fields are the model's columns.           *)
(***************************************************************************)
EXTENDS Integers, FiniteSets, Sequences, TLC

VARIABLES
    issues,        \* Issue table: rows [pk, project, id, author, opened_at, milestone]
    nextIssuePk,   \* the AutoField sequence of Issue.primarykey
    pend,          \* per request: an issue creation between next_id() and save()
    issueLabels,   \* Issue.labels join table: pairs <<issue pk, label id>>
    labels,        \* Label table: rows [id, project, deleted]
    milestones,    \* Milestone table: rows [pk, project, name, deleted]
    events,        \* Event table: rows [pk, issue, date, author, code, args, body]
    nextEventPk,   \* the AutoField sequence of Event.id
    readstates,    \* ReadState table: rows [issue, user, lastread]
    reading,       \* per request: a mark_as_read() between its get() and its save()
    now,           \* timezone.now()
    settings       \* the site's Settings row: [edit_policy, edit_policy_timeout]

vars == <<issues, nextIssuePk, pend, issueLabels, labels, milestones, events,
          nextEventPk, readstates, reading, now, settings>>

----------------------------------------------------------------------------
(* Bounds *)

MaxIssuePk == 4

\* The concurrent requests (one thread of the web server each) and the user
\* each is made by.
Requests == {"r1", "r2"}

Projects == {"p1", "p2"}

\* Authenticated users, and the AnonymousUser.
Users == {"alice", "bob"}

Anonymous == "anon"

RequestUser(r) == IF r = "r1" THEN "alice" ELSE "bob"

is_authenticated(user) == user # Anonymous

\* None for a nullable foreign key (AutoField keys start at 1).
NoPk == 0

----------------------------------------------------------------------------
(* Settings *)

EDIT_NOTIMEOUT == 0

EDIT_TIMEOUT == 1

EDIT_NOMORECOMMENT == 2

----------------------------------------------------------------------------
(* Event codes *)

UNKNOW == 0

CLOSE == 1

REOPEN == 2

RENAME == 3

ADD_LABEL == 4

DEL_LABEL == 5

SET_MILESTONE == 6

CHANGE_MILESTONE == 7

UNSET_MILESTONE == 8

REFERENCE == 9

COMMENT == 10

DESCRIBE == 11

ASSIGN == 12

UNASSIGN == 13

SET_DUE_DATE == 14

CHANGE_DUE_DATE == 15

UNSET_DUE_DATE == 16

----------------------------------------------------------------------------
(* Issue ids *)

\* project.issues: the reverse of the Issue.project foreign key.
ProjectIssues(project) == {i \in issues : i.project = project}

\* QuerySet.last() of an unordered queryset: the row with the greatest pk.
Last(rows) == CHOOSE i \in rows : \A j \in rows : j.pk <= i.pk

next_id(project) ==
    LET rows == ProjectIssues(project)
    IN  IF rows # {} THEN Last(rows).id + 1 ELSE 1

\* A request that is creating no issue; result is how its last save() ended.
IdleCreation(result) == [pc |-> "idle", project |-> "p1", id |-> 0, result |-> result]

\* A request starts creating an issue: it takes the id from Issue.next_id.
TakeNextId(r, project) ==
    /\ pend[r].pc = "idle"
    /\ pend' = [pend EXCEPT ![r] = [pc |-> "got_id", project |-> project,
                                    id |-> next_id(project), result |-> "none"]]
    /\ UNCHANGED <<issues, nextIssuePk, issueLabels, labels, milestones, events,
                   nextEventPk, readstates, reading, now, settings>>

MutNoUniqueTogether(project, id) == TRUE

\* Issue.Meta.unique_together = ['project', 'id']: the INSERT is accepted only
\* when no stored row has the same (project, id).
IssueUniqueTogether(project, id) ==
    \A i \in issues : ~(i.project = project /\ i.id = id)

\* issue.save() of the new issue: the row is inserted with a fresh primarykey
\* and opened_at = now (auto_now_add), or the INSERT raises IntegrityError and
\* nothing is stored.
SaveIssue(r) ==
    /\ pend[r].pc = "got_id"
    /\ nextIssuePk <= MaxIssuePk
    /\ IF IssueUniqueTogether(pend[r].project, pend[r].id)
       THEN /\ issues' = issues \cup
                   {[pk |-> nextIssuePk, project |-> pend[r].project,
                     id |-> pend[r].id, author |-> RequestUser(r),
                     opened_at |-> now, milestone |-> NoPk]}
            /\ nextIssuePk' = nextIssuePk + 1
            /\ pend' = [pend EXCEPT ![r] = IdleCreation("saved")]
       ELSE /\ UNCHANGED <<issues, nextIssuePk>>
            /\ pend' = [pend EXCEPT ![r] = IdleCreation("IntegrityError")]
    /\ UNCHANGED <<issueLabels, labels, milestones, events, nextEventPk,
                   readstates, reading, now, settings>>

\* issue.delete(): the row goes, and with it (on_delete=CASCADE) its events,
\* its read states and its label associations.
DeleteIssue(pk) ==
    /\ \E i \in issues : i.pk = pk
    /\ issues' = {i \in issues : i.pk # pk}
    /\ events' = {e \in events : e.issue # pk}
    /\ readstates' = {s \in readstates : s.issue # pk}
    /\ issueLabels' = {il \in issueLabels : il[1] # pk}
    /\ UNCHANGED <<nextIssuePk, pend, labels, milestones, nextEventPk, reading,
                   now, settings>>

----------------------------------------------------------------------------
(* The empty database *)

\* A request that is in no mark_as_read(); result is how its last call ended.
IdleReading(result) ==
    [pc |-> "idle", issue |-> NoPk, user |-> Anonymous, found |-> FALSE,
     olddate |-> 0, result |-> result]

Init ==
    /\ issues = {}
    /\ nextIssuePk = 1
    /\ pend = [r \in Requests |-> IdleCreation("none")]
    /\ issueLabels = {}
    /\ labels = {}
    /\ milestones = {}
    /\ events = {}
    /\ nextEventPk = 1
    /\ readstates = {}
    /\ reading = [r \in Requests |-> IdleReading("none")]
    /\ now = 0
    /\ settings = [edit_policy |-> EDIT_NOTIMEOUT, edit_policy_timeout |-> 1]

NextIds ==
    \/ \E r \in Requests, p \in Projects : TakeNextId(r, p)
    \/ \E r \in Requests : SaveIssue(r)
    \/ \E pk \in 1..MaxIssuePk : DeleteIssue(pk)

\* Concurrent issue creations and deletions, from the empty database.
SpecIds == Init /\ [][NextIds]_vars

----------------------------------------------------------------------------
(* The event log of an issue *)

MaxTime == 1

MaxEventPk == 3

\* Event.args of an event made without arguments: _args = "{}".  The decoded
\* dictionary is a record of the keys the model methods write or read; a key
\* that is absent from the dictionary holds 0 (the label id, the due-date
\* timestamps) or "" (the milestone names, the titles).
NoArgs ==
    [label |-> 0, milestone |-> "", old_milestone |-> "", new_milestone |-> "",
     old_title |-> "", new_title |-> "",
     due_date |-> 0, old_due_date |-> 0, new_due_date |-> 0]

Bodies == {"a", "b"}

\* issue.events: the reverse of the Event.issue foreign key.
IssueEvents(issue) == {e \in events : e.issue = issue}

IssueRow(issue) == CHOOSE i \in issues : i.pk = issue

MilestoneRow(milestone) == CHOOSE m \in milestones : m.pk = milestone

\* QuerySet.first() of an unordered queryset: the row with the smallest pk.
First(rows) == CHOOSE e \in rows : \A f \in rows : e.pk <= f.pk

\* Event(...).save() of a new event: a fresh pk, date = now (auto_now_add).
NewEvent(issue, author, code, args, body) ==
    [pk |-> nextEventPk, issue |-> issue, date |-> now, author |-> author,
     code |-> code, args |-> args, body |-> body]

InsertEvent(issue, author, code, args, body) ==
    /\ nextEventPk <= MaxEventPk
    /\ events' = events \cup {NewEvent(issue, author, code, args, body)}
    /\ nextEventPk' = nextEventPk + 1

\* The clock advances between two operations (or does not: two operations
\* may read the same timezone.now()).
Tick ==
    /\ now < MaxTime
    /\ now' = now + 1
    /\ UNCHANGED <<issues, nextIssuePk, pend, issueLabels, labels, milestones,
                   events, nextEventPk, readstates, reading, settings>>

\* The events of the issue with code DESCRIBE.
DescEvents(issue) == {e \in IssueEvents(issue) : e.code = DESCRIBE}

MutHasDescNever(issue) == FALSE

\* desc.exists()
HasDesc(issue) == DescEvents(issue) # {}

MutGetdesceventNoFilter(issue) == First(IssueEvents(issue))

\* desc.first()
getdescevent(issue) == First(DescEvents(issue))

setdesc(issue, value) ==
    /\ IF HasDesc(issue)
       THEN /\ events' = (events \ {getdescevent(issue)}) \cup
                   {[getdescevent(issue) EXCEPT !.body = value]}
            /\ UNCHANGED nextEventPk
       ELSE InsertEvent(issue, IssueRow(issue).author, DESCRIBE, NoArgs, value)
    /\ UNCHANGED <<issues, nextIssuePk, pend, issueLabels, labels, milestones,
                   readstates, reading, now, settings>>

deldesc(issue) ==
    /\ IF HasDesc(issue)
       THEN events' = events \ {getdescevent(issue)}
       ELSE UNCHANGED events
    /\ UNCHANGED <<issues, nextIssuePk, pend, issueLabels, labels, milestones,
                   nextEventPk, readstates, reading, now, settings>>

add_label(issue, author, label) ==
    /\ IF <<issue, label>> \in issueLabels
       THEN UNCHANGED <<issueLabels, events, nextEventPk>>
       ELSE /\ issueLabels' = issueLabels \cup {<<issue, label>>}
            /\ InsertEvent(issue, author, ADD_LABEL,
                           [NoArgs EXCEPT !.label = label], "")
    /\ UNCHANGED <<issues, nextIssuePk, pend, labels, milestones, readstates,
                   reading, now, settings>>

remove_label(issue, author, label) ==
    /\ issueLabels' = issueLabels \ {<<issue, label>>}
    /\ InsertEvent(issue, author, DEL_LABEL, [NoArgs EXCEPT !.label = label], "")
    /\ UNCHANGED <<issues, nextIssuePk, pend, labels, milestones, readstates,
                   reading, now, settings>>

\* issue.milestone = milestone; issue.save()
SetIssueMilestone(issue, milestone) ==
    issues' = (issues \ {IssueRow(issue)}) \cup
              {[IssueRow(issue) EXCEPT !.milestone = milestone]}

add_milestone(issue, author, milestone) ==
    /\ IF IssueRow(issue).milestone = milestone
       THEN UNCHANGED <<issues, events, nextEventPk>>
       ELSE /\ IF IssueRow(issue).milestone # NoPk
               THEN InsertEvent(issue, author, CHANGE_MILESTONE,
                        [NoArgs EXCEPT
                           !.old_milestone = MilestoneRow(IssueRow(issue).milestone).name,
                           !.new_milestone = MilestoneRow(milestone).name], "")
               ELSE InsertEvent(issue, author, SET_MILESTONE,
                        [NoArgs EXCEPT !.milestone = MilestoneRow(milestone).name], "")
            /\ SetIssueMilestone(issue, milestone)
    /\ UNCHANGED <<nextIssuePk, pend, issueLabels, labels, milestones, readstates,
                   reading, now, settings>>

remove_milestone(issue, author, milestone) ==
    /\ SetIssueMilestone(issue, NoPk)
    /\ InsertEvent(issue, author, UNSET_MILESTONE,
                   [NoArgs EXCEPT !.milestone = MilestoneRow(milestone).name], "")
    /\ UNCHANGED <<nextIssuePk, pend, issueLabels, labels, milestones, readstates,
                   reading, now, settings>>

\* A user comments on the issue: an event with code COMMENT and the comment
\* as its body.
AddComment(issue, author, body) ==
    /\ InsertEvent(issue, author, COMMENT, NoArgs, body)
    /\ UNCHANGED <<issues, nextIssuePk, pend, issueLabels, labels, milestones,
                   readstates, reading, now, settings>>

----------------------------------------------------------------------------
(* Soft deletion of labels and milestones *)

MutProjectLabelsAll(project) == {l \in labels : l.project = project}

\* Project.labels
Project_labels(project) ==
    {l \in labels : l.project = project /\ l.deleted = FALSE}

\* Project.milestones
Project_milestones(project) ==
    {m \in milestones : m.project = project /\ m.deleted = FALSE}

\* label.deleted = True; label.save()
SoftDeleteLabel(label) ==
    /\ \E l \in labels : l.id = label /\ ~l.deleted
    /\ labels' = {IF l.id = label THEN [l EXCEPT !.deleted = TRUE] ELSE l :
                     l \in labels}
    /\ UNCHANGED <<issues, nextIssuePk, pend, issueLabels, milestones, events,
                   nextEventPk, readstates, reading, now, settings>>

\* milestone.deleted = True; milestone.save()
SoftDeleteMilestone(milestone) ==
    /\ \E m \in milestones : m.pk = milestone /\ ~m.deleted
    /\ milestones' = {IF m.pk = milestone THEN [m EXCEPT !.deleted = TRUE] ELSE m :
                         m \in milestones}
    /\ UNCHANGED <<issues, nextIssuePk, pend, issueLabels, labels, events,
                   nextEventPk, readstates, reading, now, settings>>

----------------------------------------------------------------------------
(* Read states *)

\* issue.readstates.filter(user=user)
IssueReadStates(issue, user) ==
    {s \in readstates : s.issue = issue /\ s.user = user}

\* self.readstates.get(user=user) raises ObjectDoesNotExist
NoReadState(issue, user) == IssueReadStates(issue, user) = {}

\* self.readstates.get(user=user)
GetReadState(issue, user) == CHOOSE s \in IssueReadStates(issue, user) : TRUE

MutHaveUnreadGte(issue, user) ==
    IF ~is_authenticated(user) THEN FALSE
    ELSE IF NoReadState(issue, user) THEN TRUE
    ELSE \E e \in IssueEvents(issue) : e.date >= GetReadState(issue, user).lastread

have_unread_message(issue, user) ==
    IF ~is_authenticated(user) THEN FALSE
    ELSE IF NoReadState(issue, user) THEN TRUE
    ELSE \E e \in IssueEvents(issue) : e.date > GetReadState(issue, user).lastread

MutUnreadNbGte(issue, user) ==
    IF ~is_authenticated(user) THEN 0
    ELSE IF NoReadState(issue, user) THEN Cardinality(IssueEvents(issue))
    ELSE Cardinality({e \in IssueEvents(issue) :
                         e.date >= GetReadState(issue, user).lastread})

get_unread_event_nb(issue, user) ==
    IF ~is_authenticated(user) THEN 0
    ELSE IF NoReadState(issue, user) THEN Cardinality(IssueEvents(issue))
    ELSE Cardinality({e \in IssueEvents(issue) :
                         e.date > GetReadState(issue, user).lastread})

\* The loop of Project.get_unread_issues_nb over the issues not yet visited.
RECURSIVE CountUnreadIssues(_, _)
CountUnreadIssues(rows, user) ==
    IF rows = {} THEN 0
    ELSE LET issue == CHOOSE i \in rows : TRUE
         IN  (IF have_unread_message(issue.pk, user) THEN 1 ELSE 0)
             + CountUnreadIssues(rows \ {issue}, user)

get_unread_issues_nb(project, user) ==
    IF ~is_authenticated(user) THEN 0
    ELSE CountUnreadIssues(ProjectIssues(project), user)

\* mark_as_read up to its self.readstates.get(user=user): an unauthenticated
\* user gets timezone.now() back at once.
MarkGet(r, issue, user) ==
    /\ reading[r].pc = "idle"
    /\ IF ~is_authenticated(user)
       THEN reading' = [reading EXCEPT ![r] = IdleReading("returned")]
       ELSE reading' = [reading EXCEPT ![r] =
               [pc |-> "got", issue |-> issue, user |-> user,
                found |-> ~NoReadState(issue, user),
                olddate |-> IF NoReadState(issue, user)
                            THEN IssueRow(issue).opened_at
                            ELSE GetReadState(issue, user).lastread,
                result |-> "none"]]
    /\ UNCHANGED <<issues, nextIssuePk, pend, issueLabels, labels, milestones,
                   events, nextEventPk, readstates, now, settings>>

\* ReadState.Meta.unique_together = ('issue', 'user')
ReadStateUniqueTogether(issue, user) ==
    \A s \in readstates : ~(s.issue = issue /\ s.user = user)

\* mark_as_read from readstate.lastread = timezone.now() on: the row read is
\* updated, or a new row is inserted (IntegrityError when the table already
\* holds one for the issue and the user).
MarkSave(r) ==
    /\ reading[r].pc = "got"
    /\ IF reading[r].found
       THEN /\ readstates' =
                 {IF s.issue = reading[r].issue /\ s.user = reading[r].user
                  THEN [s EXCEPT !.lastread = now] ELSE s : s \in readstates}
            /\ reading' = [reading EXCEPT ![r] = IdleReading("returned")]
       ELSE IF ReadStateUniqueTogether(reading[r].issue, reading[r].user)
       THEN /\ readstates' = readstates \cup
                 {[issue |-> reading[r].issue, user |-> reading[r].user,
                   lastread |-> now]}
            /\ reading' = [reading EXCEPT ![r] = IdleReading("returned")]
       ELSE /\ UNCHANGED readstates
            /\ reading' = [reading EXCEPT ![r] = IdleReading("IntegrityError")]
    /\ UNCHANGED <<issues, nextIssuePk, pend, issueLabels, labels, milestones,
                   events, nextEventPk, now, settings>>

----------------------------------------------------------------------------
(* Editing comments and descriptions *)

MaxTimeout == 2

Policies == {EDIT_NOTIMEOUT, EDIT_TIMEOUT, EDIT_NOMORECOMMENT}

\* The permissions a user may hold on the project of the event's issue:
\* request.user.has_perm(perm, self.issue.project) is perm \in perms.
Perms == {"modify_comment", "modify_issue", "modify_own_comment"}

editable(e) == e.code = COMMENT \/ e.code = DESCRIBE

MutEditableByTimeoutGte(e, user, perms) ==
    IF ~editable(e) THEN FALSE
    ELSE IF "modify_comment" \in perms /\ e.code = COMMENT THEN TRUE
    ELSE IF "modify_issue" \in perms /\ e.code = DESCRIBE THEN TRUE
    ELSE IF "modify_own_comment" \notin perms \/ ~(e.author = user) THEN FALSE
    ELSE IF settings.edit_policy = EDIT_TIMEOUT
         THEN e.date + settings.edit_policy_timeout >= now
    ELSE IF settings.edit_policy = EDIT_NOMORECOMMENT
         THEN ~(\E f \in IssueEvents(e.issue) : f.code = COMMENT /\ f.date > e.date)
    ELSE TRUE

\* Event.editable_by(request), for request.user = user holding perms; dates
\* and the timeout are in minutes.
editable_by(e, user, perms) ==
    IF ~editable(e) THEN FALSE
    ELSE IF "modify_comment" \in perms /\ e.code = COMMENT THEN TRUE
    ELSE IF "modify_issue" \in perms /\ e.code = DESCRIBE THEN TRUE
    ELSE IF "modify_own_comment" \notin perms \/ ~(e.author = user) THEN FALSE
    ELSE IF settings.edit_policy = EDIT_TIMEOUT
         THEN e.date + settings.edit_policy_timeout > now
    ELSE IF settings.edit_policy = EDIT_NOMORECOMMENT
         THEN ~(\E f \in IssueEvents(e.issue) : f.code = COMMENT /\ f.date > e.date)
    ELSE TRUE

\* The site's settings are saved with another policy or timeout
\* (edit_policy_timeout has MinValueValidator(1)).
SaveSettings(policy, timeout) ==
    /\ settings' = [edit_policy |-> policy, edit_policy_timeout |-> timeout]
    /\ settings' # settings
    /\ UNCHANGED <<issues, nextIssuePk, pend, issueLabels, labels, milestones,
                   events, nextEventPk, readstates, reading, now>>

----------------------------------------------------------------------------
(* A database that holds two projects with their issues, labels and        *)
(* milestones, and no event yet                                            *)

SeedIssues ==
    {[pk |-> 1, project |-> "p1", id |-> 1, author |-> "alice", opened_at |-> 0,
      milestone |-> NoPk],
     [pk |-> 2, project |-> "p1", id |-> 2, author |-> "bob", opened_at |-> 0,
      milestone |-> NoPk],
     [pk |-> 3, project |-> "p2", id |-> 1, author |-> "alice", opened_at |-> 0,
      milestone |-> NoPk]}

SeedLabels ==
    {[id |-> 1, project |-> "p1", deleted |-> FALSE],
     [id |-> 2, project |-> "p2", deleted |-> FALSE]}

SeedMilestones ==
    {[pk |-> 1, project |-> "p1", name |-> "m1", deleted |-> FALSE],
     [pk |-> 2, project |-> "p1", name |-> "m2", deleted |-> FALSE],
     [pk |-> 3, project |-> "p2", name |-> "m1", deleted |-> FALSE]}

InitTracker ==
    /\ issues = SeedIssues
    /\ nextIssuePk = 4
    /\ pend = [r \in Requests |-> IdleCreation("none")]
    /\ issueLabels = {}
    /\ labels = SeedLabels
    /\ milestones = SeedMilestones
    /\ events = {}
    /\ nextEventPk = 1
    /\ readstates = {}
    /\ reading = [r \in Requests |-> IdleReading("none")]
    /\ now = 0
    /\ settings = [edit_policy |-> EDIT_NOTIMEOUT, edit_policy_timeout |-> 1]

\* The issues whose description is written and deleted, and the issue, the
\* labels and the milestones of the other operations of the log.
DescIssues == {1, 2}

LogIssues == {1}

LogLabels == {1}

LogMilestones == {1}

\* The users who label, plan and comment.
LogAuthors == {"bob"}

NextLog ==
    \/ Tick
    \/ \E i \in DescIssues, v \in Bodies : setdesc(i, v)
    \/ \E i \in DescIssues : deldesc(i)
    \/ \E i \in LogIssues, u \in LogAuthors, l \in LogLabels : add_label(i, u, l)
    \/ \E i \in LogIssues, u \in LogAuthors, l \in LogLabels : remove_label(i, u, l)
    \/ \E i \in LogIssues, u \in LogAuthors, m \in LogMilestones : add_milestone(i, u, m)
    \/ \E i \in LogIssues, u \in LogAuthors, m \in LogMilestones : remove_milestone(i, u, m)
    \/ \E i \in LogIssues, u \in LogAuthors : AddComment(i, u, "c")

\* Label, milestone, comment and description operations on the issues.
SpecLog == InitTracker /\ [][NextLog]_vars

\* The operations on one issue, with mark_as_read by its readers.
AppendIssues == {1}

AppendReaders == {"alice", Anonymous}

NextAppend ==
    \/ Tick
    \/ \E i \in AppendIssues, v \in Bodies : setdesc(i, v)
    \/ \E i \in AppendIssues : deldesc(i)
    \/ \E i \in AppendIssues, u \in LogAuthors, l \in LogLabels : add_label(i, u, l)
    \/ \E i \in AppendIssues, u \in LogAuthors, l \in LogLabels : remove_label(i, u, l)
    \/ \E i \in AppendIssues, u \in LogAuthors, m \in LogMilestones :
          add_milestone(i, u, m)
    \/ \E i \in AppendIssues, u \in LogAuthors, m \in LogMilestones :
          remove_milestone(i, u, m)
    \/ \E i \in AppendIssues, u \in AppendReaders : MarkGet("r1", i, u)
    \/ MarkSave("r1")

SpecAppend == InitTracker /\ [][NextAppend]_vars

\* Labels and milestones are attached to the issues, detached and
\* soft-deleted.
SoftIssues == {1}

SoftMilestones == {1, 2}

NextSoft ==
    \/ \E i \in SoftIssues, u \in LogAuthors, l \in LogLabels : add_label(i, u, l)
    \/ \E i \in SoftIssues, u \in LogAuthors, l \in LogLabels : remove_label(i, u, l)
    \/ \E i \in SoftIssues, u \in LogAuthors, m \in SoftMilestones :
          add_milestone(i, u, m)
    \/ \E i \in SoftIssues, u \in LogAuthors, m \in SoftMilestones :
          remove_milestone(i, u, m)
    \/ \E l \in {x.id : x \in labels} : SoftDeleteLabel(l)
    \/ \E m \in {x.pk : x \in milestones} : SoftDeleteMilestone(m)

SpecSoft == InitTracker /\ [][NextSoft]_vars

\* Events are added to the issues and deleted, and users mark issues as
\* read, one call at a time.
MaxReadEventPk == 2

ReadMarks == {<<1, "alice">>, <<1, "bob">>, <<2, "alice">>, <<3, "alice">>,
              <<1, Anonymous>>}

NextRead ==
    \/ Tick
    \/ \E u \in LogAuthors : nextEventPk <= MaxReadEventPk /\ AddComment(1, u, "c")
    \/ nextEventPk <= MaxReadEventPk /\ setdesc(2, "a")
    \/ deldesc(2)
    \/ \E m \in ReadMarks : MarkGet("r1", m[1], m[2])
    \/ MarkSave("r1")

SpecRead == InitTracker /\ [][NextRead]_vars

\* Two requests mark issues as read concurrently.
MarkIssues == {1, 2}

NextMark ==
    \/ Tick
    \/ \E r \in Requests, i \in MarkIssues, u \in Users \cup {Anonymous} :
          MarkGet(r, i, u)
    \/ \E r \in Requests : MarkSave(r)

SpecMark == InitTracker /\ [][NextMark]_vars

\* Comments, a description and a label event are added while the clock
\* advances and the settings change.
EditIssues == {1, 2}

NextEdit ==
    \/ Tick
    \/ \E i \in EditIssues, u \in Users : AddComment(i, u, "c")
    \/ setdesc(1, "a")
    \/ add_label(1, "bob", 1)
    \/ \E p \in Policies, t \in 1..MaxTimeout : SaveSettings(p, t)

SpecEdit == InitTracker /\ [][NextEdit]_vars

----------------------------------------------------------------------------
(* C1: in every reachable state, whatever the interleaving of issue        *)
(* creations (next_id, then save) and deletions, no two stored issues of   *)
(* the same project have the same id; issues of different projects may.    *)
IssueIdUniqueInProject ==
    \A i, j \in issues : (i.project = j.project /\ i.id = j.id) => i.pk = j.pk

\* Two requests took the same id before either saved: the second save was
\* rejected, and the stored issues include two of different projects with
\* the same id.
RacingCreationRejected ==
    /\ \E r \in Requests : pend[r].result = "IntegrityError"
    /\ \E i, j \in issues : i.project # j.project /\ i.id = j.id

(* C2: next_id(project) is 1 when the project has no issue and the id of   *)
(* the most recently created issue plus 1 otherwise, and it is strictly    *)
(* greater than the id of every issue stored in the project.               *)
NextIdIsFresh ==
    \A p \in Projects :
        /\ ProjectIssues(p) = {} => next_id(p) = 1
        /\ \A i \in ProjectIssues(p) :
              /\ (\A j \in ProjectIssues(p) : j.pk <= i.pk) => next_id(p) = i.id + 1
              /\ next_id(p) > i.id

----------------------------------------------------------------------------
\* The stored events of an issue that carry its description.
Describes(issue) == {e \in events : e.issue = issue /\ e.code = DESCRIBE}

IssuePks == {i.pk : i \in issues}

(* C3: after any sequence of description writes, description deletes and   *)
(* other event-creating operations, an issue has at most one DESCRIBE      *)
(* event; a write on an issue without one creates exactly one, authored by *)
(* the issue's author, and a write on an issue with one changes only the   *)
(* body of that event and leaves the number of events unchanged.           *)
SingleDescribeEvent ==
    /\ [](\A i \in IssuePks : Cardinality(Describes(i)) <= 1)
    /\ [][\A i \in IssuePks :
            /\ \A v \in Bodies : setdesc(i, v) =>
                  /\ Describes(i)' # {}
                  /\ \A e \in Describes(i)' : e.body = v
                  /\ Describes(i) = {} =>
                        /\ Cardinality(events') = Cardinality(events) + 1
                        /\ \A e \in Describes(i)' : e.author = IssueRow(i).author
                  /\ Describes(i) # {} =>
                        /\ Cardinality(events') = Cardinality(events)
                        /\ \E e \in Describes(i) :
                              events' = (events \ {e}) \cup {[e EXCEPT !.body = v]}
            /\ (Describes(i) = {} /\ Describes(i)' # {}) =>
                  \E v \in Bodies : setdesc(i, v)
         ]_vars

\* An issue whose description was written after another of its events, while
\* another issue has a description too.
DescribedAfterOtherEvent ==
    \E e \in events, f \in events, g \in events :
        /\ e.code = DESCRIBE /\ f.issue = e.issue /\ f.pk < e.pk
        /\ g.code = DESCRIBE /\ g.issue # e.issue

(* C4: the description is the first event of its issue: whenever an issue  *)
(* has a DESCRIBE event, no other event of the issue has an earlier date.  *)
DescribeIsFirstEvent ==
    \A e \in events :
        e.code = DESCRIBE => \A f \in IssueEvents(e.issue) : f.date >= e.date

(* C5, as stated: the event log is append-only: across add_label,          *)
(* remove_label, add_milestone, remove_milestone, setdesc, deldesc and     *)
(* mark_as_read, an event that exists in one state exists in every later   *)
(* state with the same author, date, code, arguments and body.             *)
EventLogAppendOnly == [][\A e \in events : e \in events']_vars

(* C5, amended: the event log is append-only except for the DESCRIBE       *)
(* event: every event whose code is not DESCRIBE persists unchanged, and   *)
(* a DESCRIBE event keeps its author, date, code and arguments, while      *)
(* setdesc replaces its body in place and deldesc removes it.              *)
EventLogAppendOnlyButDescribe ==
    [][\A e \in events :
          /\ e.code # DESCRIBE => e \in events'
          /\ e.code = DESCRIBE =>
                /\ \A f \in events' : f.pk = e.pk =>
                      \E v \in Bodies : f = [e EXCEPT !.body = v]
                /\ e \notin events' =>
                      \/ \E v \in Bodies : setdesc(e.issue, v)
                      \/ deldesc(e.issue)
      ]_vars

\* A label or milestone event outlived the deletion of a description, and
\* the issue has been marked as read.
EventOutlivedDescription ==
    /\ \E e \in events : e.code # DESCRIBE
    /\ nextEventPk - 1 > Cardinality(events)
    /\ readstates # {}

(* C6: Project.labels and Project.milestones return exactly the project's  *)
(* records whose deleted flag is false; setting the flag of a label or a   *)
(* milestone hides it from them and removes no record, no event and no     *)
(* issue's association with it.                                            *)
SoftDeleteHidesAndKeeps ==
    /\ [](\A p \in Projects :
            /\ \A l \in labels :
                  l \in Project_labels(p) <=> (l.project = p /\ ~l.deleted)
            /\ Project_labels(p) \subseteq labels
            /\ \A m \in milestones :
                  m \in Project_milestones(p) <=> (m.project = p /\ ~m.deleted)
            /\ Project_milestones(p) \subseteq milestones)
    /\ [][/\ \A l \in labels : SoftDeleteLabel(l.id) =>
                /\ \A p \in Projects : \A x \in Project_labels(p)' : x.id # l.id
                /\ [l EXCEPT !.deleted = TRUE] \in labels'
          /\ \A m \in milestones : SoftDeleteMilestone(m.pk) =>
                /\ \A p \in Projects : \A x \in Project_milestones(p)' : x.pk # m.pk
                /\ [m EXCEPT !.deleted = TRUE] \in milestones'
          /\ ({l \in labels : l.deleted} # {l \in labels' : l.deleted}
                \/ {m \in milestones : m.deleted} # {m \in milestones' : m.deleted})
             => /\ {l.id : l \in labels'} = {l.id : l \in labels}
                /\ {m.pk : m \in milestones'} = {m.pk : m \in milestones}
                /\ events' = events
                /\ issueLabels' = issueLabels
                /\ issues' = issues
      ]_vars

\* A soft-deleted label is still attached to an issue and named by an
\* ADD_LABEL event, and a soft-deleted milestone is still the milestone of an
\* issue and named by a SET_MILESTONE event.
DeletedButReferenced ==
    /\ \E l \in labels, e \in events :
          /\ l.deleted /\ <<e.issue, l.id>> \in issueLabels
          /\ e.code = ADD_LABEL /\ e.args.label = l.id
    /\ \E m \in milestones, i \in issues, e \in events :
          /\ m.deleted /\ i.milestone = m.pk
          /\ e.code = SET_MILESTONE /\ e.args.milestone = m.name /\ e.issue = i.pk

----------------------------------------------------------------------------
AllUsers == Users \cup {Anonymous}

\* The user has a ReadState for the issue, and its last-read timestamp.
Marked(issue, user) == \E s \in readstates : s.issue = issue /\ s.user = user

LastRead(issue, user) ==
    (CHOOSE s \in readstates : s.issue = issue /\ s.user = user).lastread

(* C7: get_unread_event_nb(user) is 0 for an unauthenticated user, the     *)
(* number of the issue's events when the user has no ReadState for the     *)
(* issue, and otherwise the number of its events dated strictly later than *)
(* the last-read timestamp; Project.get_unread_issues_nb(user) is the      *)
(* number of the project's issues with have_unread_message(user).          *)
UnreadCounts ==
    \A u \in AllUsers :
        /\ \A i \in IssuePks :
              get_unread_event_nb(i, u) =
                 IF u = Anonymous THEN 0
                 ELSE IF ~Marked(i, u)
                      THEN Cardinality({e \in events : e.issue = i})
                      ELSE Cardinality({e \in events :
                              e.issue = i /\ e.date > LastRead(i, u)})
        /\ \A p \in Projects :
              get_unread_issues_nb(p, u) =
                 Cardinality({i \in issues :
                                i.project = p /\ have_unread_message(i.pk, u)})

\* Issue 1 has an event alice has read and one she has not, bob has no
\* ReadState for it, and alice has read issue 2.
SomeReadSomeUnread ==
    /\ Cardinality(IssueEvents(1)) = 2
    /\ Marked(1, "alice") /\ get_unread_event_nb(1, "alice") = 1
    /\ ~Marked(1, "bob") /\ get_unread_event_nb(1, "bob") = 2
    /\ Marked(2, "alice") /\ get_unread_issues_nb("p1", "alice") = 1
    /\ get_unread_issues_nb("p2", "alice") = 1

(* C8: an event that is neither a COMMENT nor a DESCRIBE is never         *)
(* editable; a COMMENT is editable by a user holding modify_comment and a  *)
(* DESCRIBE by a user holding modify_issue, whatever the policy; otherwise *)
(* only the event's author holding modify_own_comment may edit it: always  *)
(* under 'no timeout', while now is earlier than the event's date plus     *)
(* edit_policy_timeout under 'timeout', and while the issue has no COMMENT *)
(* dated later than the event under 'until next comment'.                  *)
EditableByPolicy ==
    \A e \in events, u \in AllUsers, perms \in SUBSET Perms :
        LET moderator ==
                \/ e.code = COMMENT /\ "modify_comment" \in perms
                \/ e.code = DESCRIBE /\ "modify_issue" \in perms
            own == e.author = u /\ "modify_own_comment" \in perms
            inTime ==
                CASE settings.edit_policy = EDIT_NOTIMEOUT -> TRUE
                  [] settings.edit_policy = EDIT_TIMEOUT ->
                        now < e.date + settings.edit_policy_timeout
                  [] settings.edit_policy = EDIT_NOMORECOMMENT ->
                        \A f \in events :
                            (f.issue = e.issue /\ f.code = COMMENT) => f.date <= e.date
        IN  editable_by(e, u, perms) <=>
               /\ e.code \in {COMMENT, DESCRIBE}
               /\ moderator \/ (own /\ inTime)

\* Under 'timeout' a comment is too old for its author to edit and another
\* one is not, and a moderator may still edit the old one.
TimeoutExpiredForAuthor ==
    /\ settings.edit_policy = EDIT_TIMEOUT
    /\ \E e \in events, f \in events :
          /\ e.code = COMMENT /\ f.code = COMMENT
          /\ ~editable_by(e, e.author, {"modify_own_comment"})
          /\ editable_by(f, f.author, {"modify_own_comment"})
          /\ editable_by(e, Anonymous, {"modify_comment"})

(* C9: there is at most one ReadState per (issue, user); for any           *)
(* interleaving of calls, mark_as_read(user) of an authenticated user      *)
(* creates the ReadState when none exists and returns opened_at, otherwise *)
(* updates it and returns its previous last-read timestamp, and in both    *)
(* cases sets the timestamp to the current time; for an unauthenticated    *)
(* user it changes no ReadState.                                           *)
MarkAsReadContract ==
    /\ [](\A s \in readstates, t \in readstates :
             (s.issue = t.issue /\ s.user = t.user) => s = t)
    /\ [][\A r \in Requests, i \in IssuePks :
            /\ \A u \in Users :
                  (/\ reading[r].pc = "got" /\ reading'[r].pc = "idle"
                   /\ reading[r].issue = i /\ reading[r].user = u) =>
                      /\ reading'[r].result = "returned"
                      /\ Marked(i, u)' /\ LastRead(i, u)' = now
                      /\ reading[r].olddate =
                            IF Marked(i, u) THEN LastRead(i, u)
                            ELSE IssueRow(i).opened_at
                      /\ {s \in readstates' : ~(s.issue = i /\ s.user = u)}
                            = {s \in readstates : ~(s.issue = i /\ s.user = u)}
            /\ MarkGet(r, i, Anonymous) => readstates' = readstates
         ]_vars

\* This step is a mark_as_read(user) on the issue that returns.
MarkReturns(issue, user) ==
    \E r \in Requests :
        /\ reading[r].pc = "got" /\ reading[r].issue = issue
        /\ reading[r].user = user
        /\ reading'[r].pc = "idle" /\ reading'[r].result = "returned"

\* This step adds to the issue an event dated after the user's last read.
LaterEventAdded(issue, user) ==
    \E e \in events' :
        /\ e.issue = issue /\ e.date > LastRead(issue, user)
        /\ \A f \in events : f.pk # e.pk

\* This step deletes no event of the issue.
NoEventDeleted(issue) ==
    \A e \in IssueEvents(issue) : \E f \in events' : f.pk = e.pk

Read(issue, user) ==
    ~have_unread_message(issue, user) /\ get_unread_event_nb(issue, user) = 0

Unread(issue, user) ==
    have_unread_message(issue, user) /\ get_unread_event_nb(issue, user) >= 1

(* C10, as stated: once a user has marked an issue as read, the issue has  *)
(* no unread message for the user until an event is added after the mark,  *)
(* and from then on it has one until the next mark_as_read; an event dated *)
(* at the last-read timestamp counts as read.                              *)
UnreadUntilNextMark ==
    [][\A i \in IssuePks, u \in Users :
          /\ MarkReturns(i, u) => Read(i, u)'
          /\ (Marked(i, u) /\ ~MarkReturns(i, u)) =>
                /\ (Read(i, u) /\ ~LaterEventAdded(i, u)) => Read(i, u)'
                /\ LaterEventAdded(i, u) => Unread(i, u)'
                /\ Unread(i, u) => Unread(i, u)'
      ]_vars

(* C10, amended: the same, but the issue stays unread until the next       *)
(* mark_as_read only as long as no event of the issue is deleted.          *)
UnreadUntilNextMarkOrDelete ==
    [][\A i \in IssuePks, u \in Users :
          /\ MarkReturns(i, u) => Read(i, u)'
          /\ (Marked(i, u) /\ ~MarkReturns(i, u)) =>
                /\ (Read(i, u) /\ ~LaterEventAdded(i, u)) => Read(i, u)'
                /\ LaterEventAdded(i, u) => Unread(i, u)'
                /\ (Unread(i, u) /\ NoEventDeleted(i)) => Unread(i, u)'
      ]_vars

\* An issue with an event dated at the user's last read and one dated after
\* it: one unread event.
ReadAtMarkUnreadAfter ==
    \E s \in readstates, e \in events, f \in events :
        /\ e.issue = s.issue /\ f.issue = s.issue
        /\ e.date = s.lastread /\ f.date > s.lastread
        /\ get_unread_event_nb(s.issue, s.user) = 1
        /\ have_unread_message(s.issue, s.user)

----------------------------------------------------------------------------
\* The ADD_LABEL and DEL_LABEL events of the issue that carry the label.
LabelEvents(issue, label) ==
    {e \in events : /\ e.issue = issue /\ e.code \in {ADD_LABEL, DEL_LABEL}
                    /\ e.args.label = label}

LabelIds == {l.id : l \in labels}

\* The step adds to the log exactly one event, of the issue, with the code
\* and the arguments.
OneEventAppended(issue, code, args) ==
    \E e \in events' :
        /\ e \notin events /\ events' = events \cup {e}
        /\ e.issue = issue /\ e.code = code /\ e.args = args

(* C11: label changes are recorded one event per actual change: add_label  *)
(* on an issue that has the label changes neither the label set nor the    *)
(* log, add_label on an issue without it adds it and appends one ADD_LABEL *)
(* event carrying the label's id, and remove_label appends a DEL_LABEL     *)
(* event only when the label was attached, so that for each label the      *)
(* ADD_LABEL and DEL_LABEL events of an issue alternate, ADD_LABEL first.  *)
LabelEventsFollowChanges ==
    /\ [](\A i \in IssuePks, l \in LabelIds :
            \A e \in LabelEvents(i, l) :
                LET before == {f \in LabelEvents(i, l) : f.pk < e.pk}
                IN  IF before = {} THEN e.code = ADD_LABEL
                    ELSE Last(before).code # e.code)
    /\ [][\A i \in IssuePks, u \in AllUsers, l \in LabelIds :
            /\ add_label(i, u, l) =>
                  IF <<i, l>> \in issueLabels
                  THEN issueLabels' = issueLabels /\ events' = events
                  ELSE /\ issueLabels' = issueLabels \cup {<<i, l>>}
                       /\ OneEventAppended(i, ADD_LABEL,
                                           [NoArgs EXCEPT !.label = l])
            /\ remove_label(i, u, l) =>
                  /\ issueLabels' = issueLabels \ {<<i, l>>}
                  /\ IF <<i, l>> \in issueLabels
                     THEN OneEventAppended(i, DEL_LABEL,
                                           [NoArgs EXCEPT !.label = l])
                     ELSE events' = events
         ]_vars

----------------------------------------------------------------------------
\* The SET_MILESTONE, CHANGE_MILESTONE and UNSET_MILESTONE events of the issue.
MilestoneEvents(issue) ==
    {e \in events : /\ e.issue = issue
                    /\ e.code \in {SET_MILESTONE, CHANGE_MILESTONE, UNSET_MILESTONE}}

MilestonePks == {m.pk : m \in milestones}

\* The name of the issue's milestone, "" when it has none.
IssueMilestoneName(issue) ==
    IF \E i \in issues : i.pk = issue /\ i.milestone = NoPk THEN ""
    ELSE (CHOOSE m \in milestones :
             \E i \in issues : i.pk = issue /\ i.milestone = m.pk).name

\* The milestone the event leaves the issue with, by name.
NamedByEvent(e) ==
    CASE e.code = SET_MILESTONE -> e.args.milestone
      [] e.code = CHANGE_MILESTONE -> e.args.new_milestone
      [] e.code = UNSET_MILESTONE -> ""

(* C12: milestone changes are recorded consistently with the issue's       *)
(* milestone: add_milestone with the milestone the issue has changes       *)
(* nothing; on an issue without a milestone it records SET_MILESTONE with  *)
(* the new name; on an issue with another milestone it records             *)
(* CHANGE_MILESTONE with the name the issue had just before and the new    *)
(* name; remove_milestone sets the milestone to none and records           *)
(* UNSET_MILESTONE.  The issue's milestone is always the one named by its  *)
(* latest milestone event (none when that is UNSET_MILESTONE or there is   *)
(* none), and every UNSET_MILESTONE event names the milestone the issue    *)
(* had just before it.                                                     *)
MilestoneEventsFollowIssue ==
    /\ [](\A i \in IssuePks :
            IssueMilestoneName(i) =
               IF MilestoneEvents(i) = {} THEN ""
               ELSE NamedByEvent(Last(MilestoneEvents(i))))
    /\ [][\A i \in IssuePks, u \in AllUsers, m \in MilestonePks :
            /\ add_milestone(i, u, m) =>
                  IF IssueRow(i).milestone = m
                  THEN issues' = issues /\ events' = events
                  ELSE /\ \E x \in issues' : x.pk = i /\ x.milestone = m
                       /\ IF IssueRow(i).milestone = NoPk
                          THEN OneEventAppended(i, SET_MILESTONE,
                                  [NoArgs EXCEPT !.milestone = MilestoneRow(m).name])
                          ELSE OneEventAppended(i, CHANGE_MILESTONE,
                                  [NoArgs EXCEPT
                                     !.old_milestone = IssueMilestoneName(i),
                                     !.new_milestone = MilestoneRow(m).name])
            /\ remove_milestone(i, u, m) =>
                  /\ \E x \in issues' : x.pk = i /\ x.milestone = NoPk
                  /\ OneEventAppended(i, UNSET_MILESTONE,
                        [NoArgs EXCEPT !.milestone = IssueMilestoneName(i)])
         ]_vars

----------------------------------------------------------------------------
(* The activity descriptions *)

\* The codes an event is saved with: the enumerated ones and one beyond them
\* (Event.code is an IntegerField without choices).
MaxCode == 17

\* 'key' in args
HasKey(args, key) == args[key] # NoArgs[key]

\* The keys whose values are numbers.
NumberKeys == {"label", "due_date", "old_due_date", "new_due_date"}

\* {k: escape(v) for k, v in self.args.items()}: escape() makes a text of
\* every value (the names and titles of the model hold no character that
\* escape() replaces).
EscapedArgs(args) ==
    [k \in DOMAIN args |-> IF k \in NumberKeys THEN ToString(args[k]) ELSE args[k]]

\* What a renderer call does: it returns a description (the pieces of the
\* text), returns None, or raises.
Returns(text) == [ret |-> "str", text |-> text]

None == [ret |-> "None", text |-> <<>>]

Raises(exception) == [ret |-> exception, text |-> <<>>]

\* Label.objects.get(id=args['label']) finds the label.
LabelExists(id) == \E l \in labels : ToString(l.id) = id

activity(e) ==
    LET args == EscapedArgs(e.args)
    IN  IF e.code = DESCRIBE THEN Returns(<<"created issue">>)
        ELSE IF e.code = COMMENT THEN Returns(<<"commented on issue">>)
        ELSE IF e.code = CLOSE THEN Returns(<<"closed issue">>)
        ELSE IF e.code = REOPEN THEN Returns(<<"reopened issue">>)
        ELSE IF e.code = RENAME THEN Returns(<<"changed the title of issue">>)
        ELSE IF e.code = ADD_LABEL \/ e.code = DEL_LABEL
        THEN IF ~HasKey(e.args, "label") THEN Raises("KeyError")
             ELSE IF ~LabelExists(args.label) THEN Raises("DoesNotExist")
             ELSE Returns(<<IF e.code = ADD_LABEL THEN "added" ELSE "removed",
                            "the", args.label, "label to issue">>)
        ELSE IF e.code = SET_MILESTONE \/ e.code = UNSET_MILESTONE
        THEN IF ~HasKey(e.args, "milestone") THEN Raises("KeyError")
             ELSE Returns(<<IF e.code = SET_MILESTONE THEN "added to"
                            ELSE "removed from",
                            "the", args.milestone, "milestone the issue">>)
        ELSE IF e.code = CHANGE_MILESTONE
        THEN IF ~HasKey(e.args, "old_milestone") \/ ~HasKey(e.args, "new_milestone")
             THEN Raises("KeyError")
             ELSE Returns(<<"moved from the", args.old_milestone, "milestone to the",
                            args.new_milestone, "milestone the issue">>)
        ELSE IF e.code = REFERENCE THEN Returns(<<"referenced the issue">>)
        ELSE IF e.code = SET_DUE_DATE
        THEN IF ~HasKey(e.args, "due_date") THEN Raises("KeyError")
             ELSE Returns(<<"set the due date to", args.due_date, "of issue">>)
        ELSE IF e.code = CHANGE_DUE_DATE
        THEN IF ~HasKey(e.args, "old_due_date") \/ ~HasKey(e.args, "new_due_date")
             THEN Raises("KeyError")
             ELSE Returns(<<"changed the due date from", args.old_due_date, "to",
                            args.new_due_date, "of issue">>)
        ELSE IF e.code = UNSET_DUE_DATE THEN Returns(<<"removed the due date of issue">>)
        ELSE None

__str__(e) ==
    LET args == EscapedArgs(e.args)
    IN  IF e.code = COMMENT \/ e.code = DESCRIBE THEN Returns(<<"commented">>)
        ELSE IF e.code = CLOSE THEN Returns(<<"closed this issue">>)
        ELSE IF e.code = REOPEN THEN Returns(<<"reopened this issue">>)
        ELSE IF e.code = RENAME
        THEN IF ~HasKey(e.args, "old_title") \/ ~HasKey(e.args, "new_title")
             THEN Raises("KeyError")
             ELSE Returns(<<"changed the title from", args.old_title, "to",
                            args.new_title>>)
        ELSE IF e.code = ADD_LABEL \/ e.code = DEL_LABEL
        THEN IF ~HasKey(e.args, "label") THEN Raises("KeyError")
             ELSE IF ~LabelExists(args.label) THEN Raises("DoesNotExist")
             ELSE Returns(<<IF e.code = ADD_LABEL THEN "added" ELSE "removed",
                            "the", args.label, "label">>)
        ELSE IF e.code = SET_MILESTONE \/ e.code = UNSET_MILESTONE
        THEN IF ~HasKey(e.args, "milestone") THEN Raises("KeyError")
             ELSE Returns(<<IF e.code = SET_MILESTONE THEN "added" ELSE "removed",
                            "this to the", args.milestone, "milestone">>)
        ELSE IF e.code = CHANGE_MILESTONE
        THEN IF ~HasKey(e.args, "old_milestone") \/ ~HasKey(e.args, "new_milestone")
             THEN Raises("KeyError")
             ELSE Returns(<<"moved this from the", args.old_milestone,
                            "milestone to the", args.new_milestone, "milestone">>)
        ELSE IF e.code = REFERENCE THEN Returns(<<"referenced this issue">>)
        ELSE IF e.code = SET_DUE_DATE
        THEN IF ~HasKey(e.args, "due_date") THEN Raises("KeyError")
             ELSE Returns(<<"set the due date to", args.due_date>>)
        ELSE IF e.code = CHANGE_DUE_DATE
        THEN IF ~HasKey(e.args, "old_due_date") \/ ~HasKey(e.args, "new_due_date")
             THEN Raises("KeyError")
             ELSE Returns(<<"changed the due date from", args.old_due_date, "to",
                            args.new_due_date>>)
        ELSE IF e.code = UNSET_DUE_DATE THEN Returns(<<"removed the due date">>)
        ELSE None

\* The arguments a code requires, over the labels, the milestone names, two
\* titles and two due dates.
RequiredArgs(code) ==
    IF code = ADD_LABEL \/ code = DEL_LABEL
    THEN {[NoArgs EXCEPT !.label = l.id] : l \in labels}
    ELSE IF code = SET_MILESTONE \/ code = UNSET_MILESTONE
    THEN {[NoArgs EXCEPT !.milestone = m.name] : m \in milestones}
    ELSE IF code = CHANGE_MILESTONE
    THEN {[NoArgs EXCEPT !.old_milestone = "m1", !.new_milestone = "m2"]}
    ELSE IF code = RENAME
    THEN {[NoArgs EXCEPT !.old_title = "t1", !.new_title = "t2"]}
    ELSE IF code = SET_DUE_DATE
    THEN {[NoArgs EXCEPT !.due_date = 1]}
    ELSE IF code = CHANGE_DUE_DATE
    THEN {[NoArgs EXCEPT !.old_due_date = 1, !.new_due_date = 2]}
    ELSE {NoArgs}

\* Event(issue=issue, author=author, code=code, args=args).save()
SaveEvent(issue, author, code, args) ==
    /\ InsertEvent(issue, author, code, args, "")
    /\ UNCHANGED <<issues, nextIssuePk, pend, issueLabels, labels, milestones,
                   readstates, reading, now, settings>>

NextRender ==
    \E code \in 0..MaxCode :
        \E args \in RequiredArgs(code) : SaveEvent(1, "bob", code, args)

\* Events of every code are saved on an issue, each with the arguments its
\* code requires.
SpecRender == InitTracker /\ [][NextRender]_vars

(* C13: the renderer covers every event code: for each enumerated code     *)
(* from CLOSE to UNSET_DUE_DATE (ASSIGN and UNASSIGN included), with the   *)
(* arguments the code requires, Event.activity() and Event.__str__()       *)
(* return a description, and only UNKNOW or a code outside the             *)
(* enumeration yields None.                                                *)
RendererCoversEveryCode ==
    \A e \in events :
        IF e.code \in CLOSE..UNSET_DUE_DATE
        THEN activity(e).ret = "str" /\ __str__(e).ret = "str"
        ELSE activity(e) = None /\ __str__(e) = None

----------------------------------------------------------------------------
(* C14: the two unread queries agree in every reachable state: for every   *)
(* issue and every user, have_unread_message(user) is true if and only if  *)
(* get_unread_event_nb(user) is greater than 0, including for an issue     *)
(* that has no event yet and for a user who has no ReadState for it.       *)
UnreadQueriesAgree ==
    \A i \in IssuePks, u \in AllUsers :
        have_unread_message(i, u) <=> get_unread_event_nb(i, u) > 0

====
